---- MODULE Spec2Model ----
(***************************************************************************)
(* State-machine model of StageInvaders' stage allocator,                  *)
(* schedule_generator.generate_schedule: the marker construction, the      *)
(* tuple sort, and the sweep over the markers with a heapq free pool.      *)
(*                                                                         *)
(* A show is the tuple <<label, start, end>>.  Labels are opaque to the    *)
(* allocator (the code binds them to `_`), so they are label ids that      *)
(* cycle with the position; times are drawn from 0..MaxTime, any start     *)
(* with any end.  Show indices are 0-based as produced by enumerate();     *)
(* shows[index + 1] is the TLA+ access for Python's shows[index].          *)
(***************************************************************************)
EXTENDS Integers, Sequences, FiniteSets, TLC

MaxShows == 3

MaxTime == 2

NumLabels == 2

MaxCalls == 2

(* entries of the input document of main, and names in a stage-name file *)
MaxEntries == 2

MaxNames == 2

(* _generate_default_stage_names(count = 5) *)
NumDefaultNames == 5

(* generate_random_shows: number of shows asked for, length of the name  *)
(* table band_names, largest start_hour in ticks, and by how many ticks  *)
(* the window end_hour - start_hour differs from min_duration            *)
MaxCount == 2

NumBandNames == 1

MaxStartHour == 1

HourSlack == 2

(* hours are counted in ticks of 0.005 h, half the step of round(x, 2) *)
TicksPerHour == 200

(* min_duration = 0.5 and max_duration = 3.0, in ticks *)
min_duration == TicksPerHour \div 2

max_duration == 3 * TicksPerHour

(* round(x, 2): the step 0.01, in ticks *)
RoundStep == TicksPerHour \div 100

START == 1

END == 0

VARIABLES shows, shows0, pc, calls, events, pos, available, next_stage,
          schedule, show_stage, placed, results,
          mpc, names, printed, written,
          rpc, count, start_hour, end_hour, rnames, rshows

(* the state of a run of main: its position, its local `names`, the stage *)
(* blocks printed and the JSON document written                           *)
mainvars == <<mpc, names, printed, written>>

(* the state of a call of random_shows.generate_random_shows: its       *)
(* position, its arguments, and its locals `names` and `shows`            *)
randvars == <<rpc, count, start_hour, end_hour, rnames, rshows>>

vars == <<shows, shows0, pc, calls, events, pos, available, next_stage,
          schedule, show_stage, placed, results, mainvars, randvars>>

----------------------------------------------------------------------------
(* Inputs *)

Labels == 1..NumLabels

Times == 0..MaxTime

Show == Labels \X Times \X Times

(* the label of the show at input position i (1-based): the labels cycle *)
(* through the label ids, so inputs hold equal and different labels      *)
LabelOf(i) == ((i - 1) % NumLabels) + 1

Spans == Times \X Times

(* the input sequence with the <<start, end>> pairs f *)
InputOf(f) == [i \in 1..Len(f) |-> <<LabelOf(i), f[i][1], f[i][2]>>]

WellFormed(s) == \A i \in 1..Len(s) : s[i][3] > s[i][2]

(* tests/test_scheduler.py: the inputs of the two scheduling tests *)
ScenarioA == InputOf(<< <<0, 10>>, <<5, 15>>, <<15, 20>> >>)

ScenarioB == InputOf(<< <<0, 10>>, <<10, 20>>, <<10, 30>> >>)

----------------------------------------------------------------------------
(* Python dict with insertion order: keys in insertion order + the items *)

EmptyDict == [order |-> <<>>, items |-> <<>>]

DictKeys(d) == DOMAIN d.items

DictLen(d) == Len(d.order)

(* variant: markers compared by timestamp only *)
TupleLess_timeonly(a, b) == a[1] < b[1]

(* variant: the index key is compared in descending order *)
TupleLess_revindex(a, b) ==
    \/ a[1] < b[1]
    \/ a[1] = b[1] /\ a[2] < b[2]
    \/ a[1] = b[1] /\ a[2] = b[2] /\ a[3] > b[3]

(* Python list/tuple comparison of the 3-tuples (time, type, index) *)
TupleLess(a, b) ==
    \/ a[1] < b[1]
    \/ a[1] = b[1] /\ a[2] < b[2]
    \/ a[1] = b[1] /\ a[2] = b[2] /\ a[3] < b[3]

(* lines 123-126: two markers per show, start marker first *)
BuildEvents(s) ==
    [k \in 1..(2 * Len(s)) |->
        IF k % 2 = 1
        THEN <<s[(k + 1) \div 2][2], START, (k - 1) \div 2>>
        ELSE <<s[k \div 2][3], END, (k \div 2) - 1>>]

(* list.sort(): stable ascending sort; an element is placed after every *)
(* element that is not greater than it                                  *)
RECURSIVE InsertSorted(_, _)
InsertSorted(e, s) ==
    IF s = <<>> THEN <<e>>
    ELSE IF TupleLess(e, Head(s)) THEN <<e>> \o s
    ELSE <<Head(s)>> \o InsertSorted(e, Tail(s))

RECURSIVE SortFrom(_, _)
SortFrom(s, acc) ==
    IF s = <<>> THEN acc ELSE SortFrom(Tail(s), InsertSorted(Head(s), acc))

SortEvents(s) == SortFrom(s, <<>>)

(* shows.sort(key=start), used by the variant Build_sortinput only *)
RECURSIVE InsertShow(_, _)
InsertShow(e, s) ==
    IF s = <<>> THEN <<e>>
    ELSE IF e[2] < Head(s)[2] THEN <<e>> \o s
    ELSE <<Head(s)>> \o InsertShow(e, Tail(s))

RECURSIVE SortShowsFrom(_, _)
SortShowsFrom(s, acc) ==
    IF s = <<>> THEN acc ELSE SortShowsFrom(Tail(s), InsertShow(Head(s), acc))

SortShows(s) == SortShowsFrom(s, <<>>)

----------------------------------------------------------------------------
(* heapq on a list; position p (1-based) has parent p \div 2 and children *)
(* 2p and 2p + 1, which is heapq's (pos-1)>>1 and 2*pos+1 on 0-based      *)
(* positions                                                              *)

RECURSIVE siftdown(_, _, _, _)
siftdown(heap, startpos, p, newitem) ==
    IF p > startpos /\ newitem < heap[p \div 2]
    THEN siftdown([heap EXCEPT ![p] = heap[p \div 2]], startpos, p \div 2, newitem)
    ELSE [heap EXCEPT ![p] = newitem]

RECURSIVE siftup(_, _, _, _)
siftup(heap, startpos, p, newitem) ==
    LET childpos == 2 * p
        rightpos == childpos + 1
        c == IF rightpos <= Len(heap) /\ ~(heap[childpos] < heap[rightpos])
             THEN rightpos ELSE childpos
    IN IF childpos <= Len(heap)
       THEN siftup([heap EXCEPT ![p] = heap[c]], startpos, c, newitem)
       ELSE siftdown([heap EXCEPT ![p] = newitem], startpos, p, newitem)

heappush(heap, item) ==
    siftdown(Append(heap, item), 1, Len(heap) + 1, item)

(* heappop as the pair <<returned item, heap afterwards>> *)
heappop(heap) ==
    LET lastelt == heap[Len(heap)]
        rest == SubSeq(heap, 1, Len(heap) - 1)
    IN IF rest # <<>>
       THEN <<rest[1], siftup([rest EXCEPT ![1] = lastelt], 1, 1, lastelt)>>
       ELSE <<lastelt, rest>>

----------------------------------------------------------------------------
(* variant: the id counter lives outside the call and is not reset *)
InitLocals_stale ==
    [available |-> <<>>, next_stage |-> next_stage, schedule |-> EmptyDict,
     show_stage |-> <<>>]

(* variant: the schedule starts with stage 1 already present *)
InitLocals_seeded ==
    [available |-> <<>>, next_stage |-> 1,
     schedule |-> [order |-> <<1>>, items |-> (1 :> <<>>)],
     show_stage |-> <<>>]

(* lines 130-133: the locals of one call *)
InitLocals ==
    [available |-> <<>>, next_stage |-> 1, schedule |-> EmptyDict,
     show_stage |-> <<>>]

(* variant: the free pool is never consulted *)
PickStage_noreuse(avail, ns) ==
    [stage |-> ns, available |-> avail, next_stage |-> ns + 1]

(* variant: the counter is not incremented after a fresh id is handed out *)
PickStage_noincrement(avail, ns) ==
    IF avail # <<>>
    THEN [stage |-> heappop(avail)[1], available |-> heappop(avail)[2],
          next_stage |-> ns]
    ELSE [stage |-> ns, available |-> avail, next_stage |-> ns]

(* variant: the counter advances by two *)
PickStage_skip(avail, ns) ==
    IF avail # <<>>
    THEN [stage |-> heappop(avail)[1], available |-> heappop(avail)[2],
          next_stage |-> ns]
    ELSE [stage |-> ns, available |-> avail, next_stage |-> ns + 2]

(* variant: the pool is used as a stack, available.pop() *)
PickStage_last(avail, ns) ==
    IF avail # <<>>
    THEN [stage |-> avail[Len(avail)],
          available |-> SubSeq(avail, 1, Len(avail) - 1), next_stage |-> ns]
    ELSE [stage |-> ns, available |-> avail, next_stage |-> ns + 1]

(* lines 137-141: stage for a start marker, with the pool and counter after *)
PickStage(avail, ns) ==
    IF avail # <<>>
    THEN [stage |-> heappop(avail)[1], available |-> heappop(avail)[2],
          next_stage |-> ns]
    ELSE [stage |-> ns, available |-> avail, next_stage |-> ns + 1]

(* variant: schedule[stage] = [show] *)
Record_overwrite(d, stage, show) ==
    IF stage \in DictKeys(d)
    THEN [d EXCEPT !.items[stage] = <<show>>]
    ELSE [order |-> Append(d.order, stage),
          items |-> (stage :> <<show>>) @@ d.items]

(* variant: schedule.setdefault(stage, []).insert(0, show) *)
Record_prepend(d, stage, show) ==
    IF stage \in DictKeys(d)
    THEN [d EXCEPT !.items[stage] = <<show>> \o @]
    ELSE [order |-> Append(d.order, stage),
          items |-> (stage :> <<show>>) @@ d.items]

(* variant: a new stage is entered before the stages already present *)
Record_front(d, stage, show) ==
    IF stage \in DictKeys(d)
    THEN [d EXCEPT !.items[stage] = Append(@, show)]
    ELSE [order |-> <<stage>> \o d.order,
          items |-> (stage :> <<show>>) @@ d.items]

(* line 143: schedule.setdefault(stage, []).append(show) *)
Record(d, stage, show) ==
    IF stage \in DictKeys(d)
    THEN [d EXCEPT !.items[stage] = Append(@, show)]
    ELSE [order |-> Append(d.order, stage),
          items |-> (stage :> <<show>>) @@ d.items]

----------------------------------------------------------------------------
Init ==
    /\ \/ \E n \in 0..MaxShows : \E f \in [1..n -> Spans] : shows = InputOf(f)
       \/ shows \in {ScenarioA, ScenarioB}
    /\ shows0 = shows
    /\ pc = "idle"
    /\ calls = 0
    /\ events = <<>>
    /\ pos = 1
    /\ available = <<>>
    /\ next_stage = 1
    /\ schedule = EmptyDict
    /\ show_stage = <<>>
    /\ placed = <<>>
    /\ results = <<>>
    /\ mpc = "off"
    /\ names = <<>>
    /\ printed = <<>>
    /\ written = <<>>
    /\ rpc = "off"
    /\ count = 0
    /\ start_hour = 0
    /\ end_hour = 0
    /\ rnames = <<>>
    /\ rshows = <<>>

(* variant: the input list is sorted in place by start time first *)
Build_sortinput ==
    /\ pc = "idle"
    /\ calls < MaxCalls
    /\ calls' = calls + 1
    /\ shows' = SortShows(shows)
    /\ events' = SortEvents(BuildEvents(shows'))
    /\ available' = InitLocals.available
    /\ next_stage' = InitLocals.next_stage
    /\ schedule' = InitLocals.schedule
    /\ show_stage' = InitLocals.show_stage
    /\ placed' = <<>>
    /\ pos' = 1
    /\ pc' = "sweep"
    /\ UNCHANGED <<shows0, results>>
    /\ UNCHANGED mainvars
    /\ UNCHANGED randvars

(* a call of generate_schedule(shows) up to the loop, lines 123-133: the *)
(* markers are built and sorted and the locals initialised               *)
Build ==
    /\ pc = "idle"
    /\ calls < MaxCalls
    /\ calls' = calls + 1
    /\ events' = SortEvents(BuildEvents(shows))
    /\ available' = InitLocals.available
    /\ next_stage' = InitLocals.next_stage
    /\ schedule' = InitLocals.schedule
    /\ show_stage' = InitLocals.show_stage
    /\ placed' = <<>>
    /\ pos' = 1
    /\ pc' = "sweep"
    /\ UNCHANGED <<shows, shows0, results>>
    /\ UNCHANGED mainvars
    /\ UNCHANGED randvars

(* lines 135-143: one iteration of the sweep on a start marker *)
StartMarker ==
    /\ pc = "sweep"
    /\ pos <= Len(events)
    /\ events[pos][2] = START
    /\ LET index == events[pos][3]
           pick == PickStage(available, next_stage)
       IN /\ available' = pick.available
          /\ next_stage' = pick.next_stage
          /\ show_stage' = (index :> pick.stage) @@ show_stage
          /\ schedule' = Record(schedule, pick.stage, shows[index + 1])
          /\ placed' = IF pick.stage \in DOMAIN placed
                       THEN [placed EXCEPT ![pick.stage] = Append(@, index)]
                       ELSE (pick.stage :> <<index>>) @@ placed
    /\ pos' = pos + 1
    /\ UNCHANGED <<shows, shows0, pc, calls, events, results>>
    /\ UNCHANGED mainvars
    /\ UNCHANGED randvars

(* variant: the most recently created stage is freed, not the show's own *)
EndMarker_pushlast ==
    /\ pc = "sweep"
    /\ pos <= Len(events)
    /\ events[pos][2] # START
    /\ events[pos][3] \in DOMAIN show_stage
    /\ available' = heappush(available, next_stage - 1)
    /\ pos' = pos + 1
    /\ UNCHANGED <<shows, shows0, pc, calls, events, next_stage, schedule,
                   show_stage, placed, results>>
    /\ UNCHANGED mainvars
    /\ UNCHANGED randvars

(* variant: the stage of an ended show is not put back into the pool *)
EndMarker_nofree ==
    /\ pc = "sweep"
    /\ pos <= Len(events)
    /\ events[pos][2] # START
    /\ events[pos][3] \in DOMAIN show_stage
    /\ pos' = pos + 1
    /\ UNCHANGED <<shows, shows0, pc, calls, events, available, next_stage,
                   schedule, show_stage, placed, results>>
    /\ UNCHANGED mainvars
    /\ UNCHANGED randvars

(* variant: the show's index is pushed instead of its stage *)
EndMarker_pushindex ==
    /\ pc = "sweep"
    /\ pos <= Len(events)
    /\ events[pos][2] # START
    /\ events[pos][3] \in DOMAIN show_stage
    /\ available' = heappush(available, events[pos][3])
    /\ pos' = pos + 1
    /\ UNCHANGED <<shows, shows0, pc, calls, events, next_stage, schedule,
                   show_stage, placed, results>>
    /\ UNCHANGED mainvars
    /\ UNCHANGED randvars

(* lines 144-146: one iteration of the sweep on an end marker *)
EndMarker ==
    /\ pc = "sweep"
    /\ pos <= Len(events)
    /\ events[pos][2] # START
    /\ events[pos][3] \in DOMAIN show_stage
    /\ available' = heappush(available, show_stage[events[pos][3]])
    /\ pos' = pos + 1
    /\ UNCHANGED <<shows, shows0, pc, calls, events, next_stage, schedule,
                   show_stage, placed, results>>
    /\ UNCHANGED mainvars
    /\ UNCHANGED randvars

(* line 145: show_stage[index] on an index with no entry raises KeyError, *)
(* which propagates out of generate_schedule                              *)
EndMarkerKeyError ==
    /\ pc = "sweep"
    /\ pos <= Len(events)
    /\ events[pos][2] # START
    /\ events[pos][3] \notin DOMAIN show_stage
    /\ pc' = "raised"
    /\ UNCHANGED <<shows, shows0, calls, events, pos, available, next_stage,
                   schedule, show_stage, placed, results>>
    /\ UNCHANGED mainvars
    /\ UNCHANGED randvars

(* line 148: return schedule *)
Return ==
    /\ pc = "sweep"
    /\ pos > Len(events)
    /\ results' = Append(results, [schedule |-> schedule, placed |-> placed])
    /\ pc' = "idle"
    /\ UNCHANGED <<shows, shows0, calls, events, pos, available, next_stage,
                   schedule, show_stage, placed>>
    /\ UNCHANGED mainvars
    /\ UNCHANGED randvars

Next ==
    \/ Build
    \/ StartMarker
    \/ EndMarker
    \/ EndMarkerKeyError
    \/ Return

Spec == Init /\ [][Next]_vars

----------------------------------------------------------------------------
(* main: load_shows, load_stage_names, generate_schedule, print_schedule   *)
(* and the optional JSON output.                                           *)
(*                                                                         *)
(* A stage name is a token [kind, n]: the n-th name of a stage-name file,  *)
(* the n-th name of the randomly generated STAGE_NAMES, or the synthesized *)
(* label "Stage n".  None and a value that is not a list of strings are    *)
(* the one-element sequences NoneValue and BadValue.                       *)

FileName(n) == [kind |-> "file", n |-> n]

DefaultName(n) == [kind |-> "default", n |-> n]

StageLabel(n) == [kind |-> "Stage", n |-> n]

NoneValue == <<[kind |-> "None", n |-> 0]>>

BadValue == <<[kind |-> "bad", n |-> 0]>>

(* line 85: the module-level default names *)
STAGE_NAMES == [k \in 1..NumDefaultNames |-> DefaultName(k)]

NameLists == {[k \in 1..n |-> FileName(k)] : n \in 0..MaxNames}

(* Python truth value of a list or None *)
Falsy(x) == x = NoneValue \/ x = <<>>

(* x or y *)
Or(x, y) == IF Falsy(x) THEN y ELSE x

(* the entries an input document can hold at position i: a triple, an   *)
(* entry with two or with four fields, as the sequence of its fields    *)
EntriesAt(i) ==
    {<<LabelOf(i), sp[1], sp[2]>> : sp \in Spans}
    \cup {<<LabelOf(i), 0>>, <<LabelOf(i), 0, 1, 0>>}

IsTriple(e) == Len(e) = 3

AllTriples(s) == \A i \in 1..Len(s) : IsTriple(s[i])

(* lines 188-195: the printed blocks, one per stage in sorted(schedule) *)
RECURSIVE SortedSeq(_)
SortedSeq(S) ==
    IF S = {} THEN <<>>
    ELSE LET m == CHOOSE x \in S : \A y \in S : x <= y
         IN <<m>> \o SortedSeq(S \ {m})

print_schedule(sch, stage_names) ==
    LET nm == Or(stage_names, STAGE_NAMES)
        keys == SortedSeq(DictKeys(sch))
    IN [k \in 1..Len(keys) |->
          LET stage == keys[k]
          IN [stage |-> stage,
              label |-> IF 0 < stage /\ stage <= Len(nm)
                        THEN nm[stage] ELSE StageLabel(stage),
              shows |-> sch.items[stage]]]

(* lines 205-210: the JSON object, one member per item of schedule.items() *)
serialisable(sch) ==
    [k \in 1..Len(sch.order) |->
        [stage |-> sch.order[k], shows |-> sch.items[sch.order[k]]]]

(* lines 88-104: the value load_stage_names returns for a file of the   *)
(* given suffix; for a .py file `upper` and `lower` are the module's    *)
(* STAGE_NAMES and stage_names (NoneValue when not defined), for a      *)
(* .json file `upper` is the parsed document; "error" is ValueError     *)
IsNameList(x) == x \in NameLists

load_stage_names(suffix, upper, lower) ==
    IF suffix = "json"
    THEN IF IsNameList(upper) THEN [ok |-> TRUE, value |-> upper]
         ELSE [ok |-> FALSE, value |-> <<>>]
    ELSE IF suffix = "py"
    THEN LET nm == Or(upper, lower)
         IN IF nm = NoneValue \/ ~IsNameList(nm)
            THEN [ok |-> FALSE, value |-> <<>>]
            ELSE [ok |-> TRUE, value |-> nm]
    ELSE [ok |-> FALSE, value |-> <<>>]

NameValues == NameLists \cup {NoneValue, BadValue}

MainInit ==
    /\ shows = <<>>
    /\ shows0 = <<>>
    /\ pc = "idle"
    /\ calls = 0
    /\ events = <<>>
    /\ pos = 1
    /\ available = <<>>
    /\ next_stage = 1
    /\ schedule = EmptyDict
    /\ show_stage = <<>>
    /\ placed = <<>>
    /\ results = <<>>
    /\ mpc = "start"
    /\ names = <<>>
    /\ printed = <<>>
    /\ written = <<>>
    /\ rpc = "off"
    /\ count = 0
    /\ start_hour = 0
    /\ end_hour = 0
    /\ rnames = <<>>
    /\ rshows = <<>>

(* line 200, lines 151-166: load_shows returns the entries of the input; *)
(* a .py module's `shows` as list(shows), a JSON array's entries each as *)
(* tuple(entry); neither checks the number of fields                     *)
LoadShows ==
    /\ mpc = "start"
    /\ \E n \in 0..MaxEntries :
          \E doc \in [1..n -> UNION {EntriesAt(i) : i \in 1..MaxEntries}] :
             /\ \A i \in 1..n : doc[i] \in EntriesAt(i)
             /\ shows' = doc
             /\ shows0' = doc
    /\ mpc' = "loaded"
    /\ UNCHANGED <<pc, calls, events, pos, available, next_stage, schedule,
                   show_stage, placed, results, names, printed, written>>
    /\ UNCHANGED randvars

(* lines 156-162, 165-166: the module cannot be loaded or has no `shows`, *)
(* the file is not JSON, or an entry of the JSON array is not iterable;   *)
(* the error ends main                                                    *)
LoadShowsError ==
    /\ mpc = "start"
    /\ mpc' = "failed"
    /\ UNCHANGED <<shows, shows0, pc, calls, events, pos, available,
                   next_stage, schedule, show_stage, placed, results, names,
                   printed, written>>
    /\ UNCHANGED randvars

(* line 201 without --stage-names: names = STAGE_NAMES *)
DefaultStageNames ==
    /\ mpc = "loaded"
    /\ names' = STAGE_NAMES
    /\ mpc' = "named"
    /\ UNCHANGED <<shows, shows0, pc, calls, events, pos, available,
                   next_stage, schedule, show_stage, placed, results,
                   printed, written>>
    /\ UNCHANGED randvars

(* line 201 with --stage-names: names = load_stage_names(path) *)
LoadStageNames ==
    /\ mpc = "loaded"
    /\ \E suffix \in {"json", "py", "other"}, upper, lower \in NameValues :
          /\ load_stage_names(suffix, upper, lower).ok
          /\ names' = load_stage_names(suffix, upper, lower).value
    /\ mpc' = "named"
    /\ UNCHANGED <<shows, shows0, pc, calls, events, pos, available,
                   next_stage, schedule, show_stage, placed, results,
                   printed, written>>
    /\ UNCHANGED randvars

(* lines 94, 100, 102, 104: load_stage_names raises ValueError *)
LoadStageNamesError ==
    /\ mpc = "loaded"
    /\ \E suffix \in {"json", "py", "other"}, upper, lower \in NameValues :
          ~load_stage_names(suffix, upper, lower).ok
    /\ mpc' = "failed"
    /\ UNCHANGED <<shows, shows0, pc, calls, events, pos, available,
                   next_stage, schedule, show_stage, placed, results, names,
                   printed, written>>
    /\ UNCHANGED randvars

(* line 202: schedule = generate_schedule(shows), every entry unpacks *)
MainCall ==
    /\ mpc = "named"
    /\ calls = 0
    /\ AllTriples(shows)
    /\ Build

(* line 202, line 124: an entry that does not have three fields makes the *)
(* unpacking `(_, start, end)` inside generate_schedule raise ValueError  *)
MainCallUnpackError ==
    /\ mpc = "named"
    /\ calls = 0
    /\ ~AllTriples(shows)
    /\ pc = "idle"
    /\ calls' = calls + 1
    /\ pc' = "raised"
    /\ UNCHANGED <<shows, shows0, events, pos, available, next_stage,
                   schedule, show_stage, placed, results>>
    /\ UNCHANGED mainvars
    /\ UNCHANGED randvars

(* line 203: print_schedule(schedule, names) *)
PrintSchedule ==
    /\ mpc = "named"
    /\ pc = "idle"
    /\ calls = 1
    /\ results # <<>>
    /\ printed' = print_schedule(results[1].schedule, names)
    /\ mpc' = "printed"
    /\ UNCHANGED <<shows, shows0, pc, calls, events, pos, available,
                   next_stage, schedule, show_stage, placed, results, names,
                   written>>
    /\ UNCHANGED randvars

(* lines 204-210 with --output: the schedule is written as JSON *)
WriteOutput ==
    /\ mpc = "printed"
    /\ written' = serialisable(results[1].schedule)
    /\ mpc' = "written"
    /\ UNCHANGED <<shows, shows0, pc, calls, events, pos, available,
                   next_stage, schedule, show_stage, placed, results, names,
                   printed>>
    /\ UNCHANGED randvars

(* line 204 without --output: main returns *)
NoOutput ==
    /\ mpc = "printed"
    /\ mpc' = "exited"
    /\ UNCHANGED <<shows, shows0, pc, calls, events, pos, available,
                   next_stage, schedule, show_stage, placed, results, names,
                   printed, written>>
    /\ UNCHANGED randvars

MainNext ==
    \/ LoadShows
    \/ LoadShowsError
    \/ DefaultStageNames
    \/ LoadStageNames
    \/ LoadStageNamesError
    \/ MainCall
    \/ MainCallUnpackError
    \/ StartMarker
    \/ EndMarker
    \/ EndMarkerKeyError
    \/ Return
    \/ PrintSchedule
    \/ WriteOutput
    \/ NoOutput

SpecMain == MainInit /\ [][MainNext]_vars

----------------------------------------------------------------------------
(* tests/test_scheduler.py, _min_stages: +1/-1 deltas swept in sorted order *)

PairLess(a, b) == a[1] < b[1] \/ (a[1] = b[1] /\ a[2] < b[2])

DeltaEvents(s) ==
    [k \in 1..(2 * Len(s)) |->
        IF k % 2 = 1 THEN <<s[(k + 1) \div 2][2], 1>>
                     ELSE <<s[k \div 2][3], -1>>]

RECURSIVE InsertDelta(_, _)
InsertDelta(e, s) ==
    IF s = <<>> THEN <<e>>
    ELSE IF PairLess(e, Head(s)) THEN <<e>> \o s
    ELSE <<Head(s)>> \o InsertDelta(e, Tail(s))

RECURSIVE SortDeltasFrom(_, _)
SortDeltasFrom(s, acc) ==
    IF s = <<>> THEN acc
    ELSE SortDeltasFrom(Tail(s), InsertDelta(Head(s), acc))

RECURSIVE RunningMax(_, _, _)
RunningMax(s, current, max_overlap) ==
    IF s = <<>> THEN max_overlap
    ELSE LET c == current + Head(s)[2]
         IN RunningMax(Tail(s), c, IF c > max_overlap THEN c ELSE max_overlap)

min_stages(s) == RunningMax(SortDeltasFrom(DeltaEvents(s), <<>>), 0, 0)

(* tests/test_scheduler.py, _stage_is_valid *)
stage_is_valid(stage_shows) ==
    \A k \in 1..(Len(stage_shows) - 1) :
        stage_shows[k][3] <= stage_shows[k + 1][2]

----------------------------------------------------------------------------
(* Vocabulary of the properties *)

Returned == {results[r] : r \in 1..Len(results)}

StageIds(d) == DictKeys(d)

RECURSIVE TotalShows(_, _)
TotalShows(d, ids) ==
    IF ids = {} THEN 0
    ELSE LET st == CHOOSE x \in ids : TRUE
         IN Len(d.items[st]) + TotalShows(d, ids \ {st})

(* the places <<stage, k>> of a returned schedule that hold input index i *)
PlacesOf(r, i) ==
    {p \in {<<st, k>> : st \in DOMAIN r.placed, k \in 1..MaxShows} :
        p[2] <= Len(r.placed[p[1]]) /\ r.placed[p[1]][p[2]] = i}

(* the schedule's lists and the indices appended to them run in parallel *)
SameShape(r) ==
    /\ DOMAIN r.placed = StageIds(r.schedule)
    /\ \A st \in DOMAIN r.placed :
          Len(r.placed[st]) = Len(r.schedule.items[st])

TypeOK ==
    /\ shows \in Seq(Labels \X Nat \X Nat)
    /\ pc \in {"idle", "sweep", "raised"}
    /\ calls \in 0..MaxCalls
    /\ pos \in 1..(2 * MaxShows + 1)

----------------------------------------------------------------------------
(* C1: for well-formed input (every end > start) the call returns, and the *)
(* number of stage ids of the returned schedule equals the maximum number  *)
(* of simultaneously active shows as computed by the +1/-1 sweep.          *)
C1_Minimality ==
    /\ WellFormed(shows0) => pc # "raised"
    /\ \A r \in Returned :
          Cardinality(StageIds(r.schedule)) = min_stages(shows0)

C1_Witness ==
    /\ results # <<>>
    /\ Len(shows0) = 3
    /\ min_stages(shows0) = 2
    /\ Cardinality(StageIds(results[1].schedule)) = 2

(* C2: in a returned schedule, consecutive shows of every stage satisfy *)
(* previous.end <= next.start.                                          *)
C2_NoOverlap ==
    \A r \in Returned : \A st \in StageIds(r.schedule) :
        stage_is_valid(r.schedule.items[st])

C2_Witness ==
    \E r \in Returned : \E st \in StageIds(r.schedule) :
        /\ Len(r.schedule.items[st]) >= 2
        /\ Cardinality(StageIds(r.schedule)) >= 2

(* C3: every input position appears at exactly one place of the returned *)
(* schedule, that place holds the show of that position, and the lists   *)
(* together hold as many shows as the input.                             *)
C3_Coverage ==
    \A r \in Returned :
        /\ SameShape(r)
        /\ \A i \in 0..(Len(shows0) - 1) :
              /\ Cardinality(PlacesOf(r, i)) = 1
              /\ \A p \in PlacesOf(r, i) :
                    r.schedule.items[p[1]][p[2]] = shows0[i + 1]
        /\ TotalShows(r.schedule, StageIds(r.schedule)) = Len(shows0)

C3_Witness ==
    \E r \in Returned :
        /\ Len(shows0) = 3
        /\ \E st \in StageIds(r.schedule) : Len(r.schedule.items[st]) = 2

(* C4: generate_schedule never raises, whatever the triples are, including *)
(* shows with end = start or end < start.                                  *)
C4_Total == pc # "raised"

(* C5: the stage ids of a returned schedule are exactly 1..K, K the number *)
(* of stages used.                                                         *)
C5_DenseIds ==
    \A r \in Returned :
        StageIds(r.schedule) = 1..Cardinality(StageIds(r.schedule))

C5_Witness ==
    \E r \in Returned : Cardinality(StageIds(r.schedule)) >= 2

(* C6: in the sorted markers every end marker at a timestamp T precedes   *)
(* every start marker at T; when the first start marker at T is reached,  *)
(* the stage of every show that ended at T is in the free pool; and two   *)
(* touching shows given alone end up on one stage.                        *)
InPool(stage) == \E k \in 1..Len(available) : available[k] = stage

C7_Chronological ==
    \A r \in Returned : \A st \in StageIds(r.schedule) :
        \A k \in 1..(Len(r.schedule.items[st]) - 1) :
            r.schedule.items[st][k][2] <= r.schedule.items[st][k + 1][2]

C7_Witness ==
    \E r \in Returned : \E st \in StageIds(r.schedule) :
        /\ Len(r.schedule.items[st]) >= 2
        /\ r.schedule.items[st][1][2] < r.schedule.items[st][2][2]

(* C8: two calls on the same input return the same schedule: the same *)
(* stage ids, each with the same list of shows in the same order.     *)
C8_Deterministic ==
    \A r1, r2 \in Returned : r1.schedule = r2.schedule

C8_Witness ==
    /\ Len(results) >= 2
    /\ Cardinality(StageIds(results[2].schedule)) >= 2

(* C9: the input sequence is the same before, during and after the call, *)
(* and every show of the output equals the input show it was taken from. *)
C9_InputUnchanged ==
    /\ shows = shows0
    /\ \A r \in Returned :
          /\ SameShape(r)
          /\ \A st \in DOMAIN r.placed : \A k \in 1..Len(r.placed[st]) :
                r.schedule.items[st][k] = shows0[r.placed[st][k] + 1]

C9_Witness ==
    /\ results # <<>>
    /\ Len(shows0) = 3
    /\ shows0[1][2] > shows0[2][2]
    /\ shows = shows0

(* C10: the call on the empty sequence raises nothing, has no marker to *)
(* sweep, and returns the empty schedule.                                *)
C10_EmptyInput ==
    shows0 = <<>> =>
        /\ pc # "raised"
        /\ pc = "sweep" => pos > Len(events)
        /\ \A r \in Returned : r.schedule = EmptyDict

C10_Witness ==
    /\ shows0 = <<>>
    /\ results # <<>>
    /\ results[1].schedule = EmptyDict

----------------------------------------------------------------------------
(* Vocabulary of the sweep properties *)

(* the ids in the free pool *)
PoolSet == {available[k] : k \in 1..Len(available)}

MinOf(S) == CHOOSE x \in S : \A y \in S : x <= y

(* position of the end marker of the show with index i *)
EndPos(i) == CHOOSE k \in 1..Len(events) : events[k][2] = END /\ events[k][3] = i

(* the shows that have started and whose end marker is still to come *)
Active == {i \in DOMAIN show_stage : EndPos(i) >= pos}

Held == {show_stage[i] : i \in Active}

(* number of active shows after the first k markers, and its running maximum *)
ActiveAfter(k) ==
    Cardinality({j \in 1..k : events[j][2] = START})
    - Cardinality({j \in 1..k : events[j][2] = END})

MaxActiveAfter(k) ==
    CHOOSE m \in {ActiveAfter(j) : j \in 0..k} :
        \A j \in 0..k : ActiveAfter(j) <= m

AtStartMarker == pc = "sweep" /\ pos <= Len(events) /\ events[pos][2] = START

(* C15: a start marker assigns the smallest id of the free pool when the  *)
(* pool is not empty, and otherwise next_stage, which is then incremented; *)
(* on the input of test_schedule_minimises_stage_count show_3 is placed on *)
(* stage 1 after show_1.                                                   *)
C15_SmallestFreeOrNext ==
    /\ [][(AtStartMarker /\ pos' = pos + 1) =>
            LET index == events[pos][3]
            IN IF available # <<>>
               THEN /\ show_stage'[index] = MinOf(PoolSet)
                    /\ next_stage' = next_stage
               ELSE /\ show_stage'[index] = next_stage
                    /\ next_stage' = next_stage + 1]_vars
    /\ [](shows0 = ScenarioA =>
            \A r \in Returned : /\ r.placed[1] = <<0, 2>>
                                /\ r.placed[2] = <<1>>)

C15_Witness ==
    /\ shows0 = ScenarioA
    /\ results # <<>>
    /\ results[1].placed[1] = <<0, 2>>
    /\ results[1].schedule.items[1] = <<ScenarioA[1], ScenarioA[3]>>

(* C16: at every point of the sweep each stage id is held by at most one  *)
(* active show, and a start marker never assigns an id that an active     *)
(* show holds.                                                            *)
C16_NoDoubleHandout ==
    /\ [](pc = "sweep" =>
            \A a, b \in Active : show_stage[a] = show_stage[b] => a = b)
    /\ [][(AtStartMarker /\ pos' = pos + 1) =>
            show_stage'[events[pos][3]] \notin Held]_vars

C16_Witness ==
    /\ pc = "sweep"
    /\ Cardinality(Active) = 2
    /\ \E i \in DOMAIN show_stage \ Active : show_stage[i] \in Held

(* C17: on well-formed input, whenever the pool is empty every allocated *)
(* id is held by an active show, and after every marker next_stage - 1   *)
(* is the largest number of simultaneously active shows seen so far.     *)
C17_NewStageOnlyWhenAllHeld ==
    (pc = "sweep" /\ WellFormed(shows)) =>
        /\ available = <<>> => Held = 1..(next_stage - 1)
        /\ next_stage - 1 = MaxActiveAfter(pos - 1)

C17_Witness ==
    /\ pc = "sweep"
    /\ WellFormed(shows)
    /\ next_stage = 3
    /\ Cardinality(Active) = 1
    /\ pos > 4

(* C18: on well-formed input, after every marker the pool has no         *)
(* duplicates, shares no id with the active shows, makes up 1..next_stage *)
(* - 1 together with them, and there are as many held ids as active      *)
(* shows.                                                                *)
C18_PoolPartition ==
    (pc = "sweep" /\ WellFormed(shows)) =>
        /\ Cardinality(PoolSet) = Len(available)
        /\ PoolSet \cap Held = {}
        /\ PoolSet \cup Held = 1..(next_stage - 1)
        /\ Cardinality(Held) = Cardinality(Active)

C18_Witness ==
    /\ pc = "sweep"
    /\ WellFormed(shows)
    /\ Len(available) = 1
    /\ Cardinality(Active) = 1
    /\ next_stage = 3

(* C19: markers of one kind at one timestamp stand in input order in the *)
(* sorted list, and of two shows that start at the same timestamp the    *)
(* one earlier in the input has the smaller stage id.                    *)
C19_InputOrderAtTies ==
    pc = "sweep" =>
        /\ \A i, j \in 1..Len(events) :
              (i < j /\ events[i][1] = events[j][1]
               /\ events[i][2] = events[j][2]) => events[i][3] < events[j][3]
        /\ \A a, b \in DOMAIN show_stage :
              (a < b /\ shows[a + 1][2] = shows[b + 1][2])
                 => show_stage[a] < show_stage[b]

C19_Witness ==
    /\ pc = "sweep"
    /\ \E a, b \in DOMAIN show_stage :
          /\ a < b
          /\ shows[a + 1][2] = shows[b + 1][2]
          /\ show_stage[a] = 1
          /\ show_stage[b] = 2
    /\ \E c \in DOMAIN show_stage : shows[c + 1][2] < shows[1][2]

----------------------------------------------------------------------------
(* Properties of main *)

Printed == mpc \in {"printed", "written", "exited"}

Ascending(seq) ==
    \A j, k \in 1..Len(seq) : j < k => seq[j].stage < seq[k].stage

(* C11: print_schedule labels stage i with names[i-1] when 1 <= i <=      *)
(* len(names) and with "Stage i" otherwise, for every supplied sequence   *)
(* of names, the empty one included.                                      *)
C11_LabelFromSuppliedNames ==
    Printed =>
        \A k \in 1..Len(printed) :
            printed[k].label =
                IF 1 <= printed[k].stage /\ printed[k].stage <= Len(names)
                THEN names[printed[k].stage]
                ELSE StageLabel(printed[k].stage)

(* C12: generate_schedule is never called with an entry that does not *)
(* have exactly three fields; such input is rejected by the loading.  *)
C12_MalformedRejectedAtLoad == calls > 0 => AllTriples(shows)

(* C13: the key order of a returned schedule is 1, 2, ..., K, and the  *)
(* printed stages and the members of the written JSON object are in    *)
(* ascending order of stage id.                                        *)
C13_AscendingStageIds ==
    /\ \A r \in Returned :
          r.schedule.order = [k \in 1..Len(r.schedule.order) |-> k]
    /\ Ascending(printed)
    /\ Ascending(written)
    /\ Printed => Len(printed) = DictLen(results[1].schedule)
    /\ mpc = "written" => Len(written) = DictLen(results[1].schedule)

C13_Witness ==
    /\ mpc = "written"
    /\ Len(printed) = 2
    /\ Len(written) = 2
    /\ written[1].stage = 1
    /\ written[2].stage = 2

----------------------------------------------------------------------------
(* random_shows.generate_random_shows(count, start_hour, end_hour) with   *)
(* the default min_duration and max_duration.  A name is its position in  *)
(* band_names.                                                            *)

band_names == 1..NumBandNames

(* rng.uniform(a, b) = a + (b - a) * random(): a value between a and b, *)
(* whichever of the two is the smaller                                  *)
Uniform(a, b) == IF a <= b THEN a..b ELSE b..a

MinNum(a, b) == IF a <= b THEN a ELSE b

(* round(x, 2): a multiple of the step is kept; a tick half-way between *)
(* two multiples stands for the floats around it, which round to either *)
Round2(x) == IF x % RoundStep = 0 THEN {x} ELSE {x - 1, x + 1}

(* lines 94-98: rng.sample without repetition, then rng.choices *)
NamePicks(n) ==
    IF n <= NumBandNames
    THEN {f \in [1..n -> band_names] :
             \A i, j \in 1..n : f[i] = f[j] => i = j}
    ELSE {f \in [1..n -> band_names] :
             \A i, j \in 1..NumBandNames : f[i] = f[j] => i = j}

RandomInit ==
    /\ shows = <<>>
    /\ shows0 = <<>>
    /\ pc = "idle"
    /\ calls = 0
    /\ events = <<>>
    /\ pos = 1
    /\ available = <<>>
    /\ next_stage = 1
    /\ schedule = EmptyDict
    /\ show_stage = <<>>
    /\ placed = <<>>
    /\ results = <<>>
    /\ mpc = "off"
    /\ names = <<>>
    /\ printed = <<>>
    /\ written = <<>>
    /\ rpc = "start"
    /\ count \in 0..MaxCount
    /\ start_hour \in 0..MaxStartHour
    /\ end_hour \in (start_hour + min_duration - HourSlack)
                    ..(start_hour + min_duration + HourSlack)
    /\ rnames = <<>>
    /\ rshows = <<>>

(* lines 91-100: the names of the shows are drawn *)
SampleNames ==
    /\ rpc = "start"
    /\ rnames' \in NamePicks(count)
    /\ rpc' = "loop"
    /\ UNCHANGED <<shows, shows0, pc, calls, events, pos, available,
                   next_stage, schedule, show_stage, placed, results>>
    /\ UNCHANGED mainvars
    /\ UNCHANGED <<count, start_hour, end_hour, rshows>>

(* lines 101-105: one iteration of the loop over the names *)
GenerateShow ==
    /\ rpc = "loop"
    /\ Len(rshows) < Len(rnames)
    /\ \E start \in Uniform(start_hour, end_hour - min_duration) :
          \E duration \in Uniform(min_duration,
                                  MinNum(max_duration, end_hour - start)) :
             \E rs \in Round2(start), re \in Round2(start + duration) :
                rshows' = Append(rshows, <<rnames[Len(rshows) + 1], rs, re>>)
    /\ UNCHANGED <<shows, shows0, pc, calls, events, pos, available,
                   next_stage, schedule, show_stage, placed, results>>
    /\ UNCHANGED mainvars
    /\ UNCHANGED <<rpc, count, start_hour, end_hour, rnames>>

(* line 106: return shows *)
ReturnShows ==
    /\ rpc = "loop"
    /\ Len(rshows) = Len(rnames)
    /\ rpc' = "done"
    /\ UNCHANGED <<shows, shows0, pc, calls, events, pos, available,
                   next_stage, schedule, show_stage, placed, results>>
    /\ UNCHANGED mainvars
    /\ UNCHANGED <<count, start_hour, end_hour, rnames, rshows>>

RandomNext ==
    \/ SampleNames
    \/ GenerateShow
    \/ ReturnShows

SpecRandom == RandomInit /\ [][RandomNext]_vars

(* C14: the call returns exactly count shows, each with a name of       *)
(* band_names and with start_hour <= start < end <= end_hour after the  *)
(* rounding.                                                            *)
C14_ShowsInsideWindow ==
    rpc = "done" =>
        /\ Len(rshows) = count
        /\ \A k \in 1..Len(rshows) :
              /\ rshows[k][1] \in band_names
              /\ start_hour <= rshows[k][2]
              /\ rshows[k][2] < rshows[k][3]
              /\ rshows[k][3] <= end_hour

====
